---------------------------- MODULE Spec2Model ----------------------------
(*
  objmixer.py: Wavefront-OBJ triangle meshes are parsed byte by byte
  (MeshObject.__load), merged (append), rotated, aligned and written back
  (dump).

  Representation.
    - a byte is a one-character string; b'' (end of stream, or "no previous
      byte") is the empty string; a byte stream is a sequence of bytes.
    - a VertexObject is an entry of `heap`; its identity is its position in
      `heap` (allocation order).  None is the reference 0.
    - a Python number is an exact value w + f/Unit with 0 <= f < Unit.  The
      resolution Unit is the output resolution of '{:.7f}' times the halvings
      that align() can perform within the model's bound, so that every
      addition, subtraction and halving of the model is exact, as it is on the
      doubles of the program for the magnitudes used here.  A quarter turn has
      cos, sin in {-1, 0, 1}; the error of cos(pi/2) in double arithmetic
      (about 6e-17) is below this resolution.  The sign of a zero is not kept.
    - an exception that the program does not catch ends the run:
      status = "raised".
*)
EXTENDS Integers, Sequences, FiniteSets, TLC

VARIABLES
  heap,       \* every VertexObject allocated so far, by identity
  files,      \* options.obj_file: the files named on the command line
  nread,      \* how many of them the loop of __main__ has read
  item,       \* the MeshObject just constructed in the loop of __main__
  hasItem,    \* TRUE while `item` waits to be adopted or appended
  triangles,  \* mesh.triangles
  hasMesh,    \* FALSE while `mesh` is None
  status,     \* "ok", or "raised" after an uncaught exception
  op,         \* the operation that produced this state
  arg,        \* its argument
  out,        \* what it returned or printed
  ncalls      \* number of rotate() and align() calls so far

vars == <<heap, files, nread, item, hasItem, triangles, hasMesh, status, op, arg, out,
          ncalls>>

-----------------------------------------------------------------------------
(* Bounds of the model *)

MaxFiles == 2
MaxLines == 4
MaxOddLines == 2
MaxCalls == 2

-----------------------------------------------------------------------------
(* Numbers *)

Decimals == 7
SpanInit == 1000000

Unit == (10 ^ Decimals) * (2 ^ MaxCalls)

NumOf(n) == [w |-> n, f |-> 0]
Zero == NumOf(0)

NumAdd(a, b) ==
  LET s == a.f + b.f
  IN  IF s >= Unit THEN [w |-> a.w + b.w + 1, f |-> s - Unit]
                   ELSE [w |-> a.w + b.w, f |-> s]

NumNeg(a) ==
  IF a.f = 0 THEN [w |-> 0 - a.w, f |-> 0]
             ELSE [w |-> 0 - a.w - 1, f |-> Unit - a.f]

NumSub(a, b) == NumAdd(a, NumNeg(b))

NumLess(a, b) == a.w < b.w \/ (a.w = b.w /\ a.f < b.f)

NumMin(a, b) == IF NumLess(b, a) THEN b ELSE a

NumMax(a, b) == IF NumLess(a, b) THEN b ELSE a

\* x / 2
NumHalf(a) ==
  IF a.w % 2 = 0 THEN [w |-> a.w \div 2, f |-> a.f \div 2]
                 ELSE [w |-> (a.w - 1) \div 2, f |-> (a.f + Unit) \div 2]

\* c * x for a matrix entry c in {-1, 0, 1}
NumTimes(c, a) == IF c = 0 THEN Zero ELSE IF c = 1 THEN a ELSE NumNeg(a)

-----------------------------------------------------------------------------
(* Tokens: float(value) and int(value.split(b'/')[0]) *)

DigitChars == <<"0", "1", "2", "3", "4", "5", "6", "7", "8", "9">>

IsDigit(c) == \E d \in 1..10 : DigitChars[d] = c

DigitVal(c) == (CHOOSE d \in 1..10 : DigitChars[d] = c) - 1

Range(s) == {s[i] : i \in 1..Len(s)}

\* position of the first occurrence of c in s, Len(s) + 1 if there is none
IndexOf(s, c) ==
  IF c \in Range(s) THEN CHOOSE i \in 1..Len(s) : s[i] = c /\ \A j \in 1..(i - 1) : s[j] # c
                    ELSE Len(s) + 1

RECURSIVE DigitsValue(_)
DigitsValue(s) ==
  IF s = <<>> THEN 0 ELSE 10 * DigitsValue(SubSeq(s, 1, Len(s) - 1)) + DigitVal(s[Len(s)])

\* the fraction .d1 d2 ... in units of 1/Unit (digits after the 7th place are
\* below the resolution of the model)
RECURSIVE FractionValue(_, _)
FractionValue(s, place) ==
  IF s = <<>> \/ place > Decimals THEN 0
  ELSE DigitVal(s[1]) * (10 ^ (Decimals - place)) * (2 ^ MaxCalls)
       + FractionValue(Tail(s), place + 1)

\* float(value): [sign] digits [. digits] | [sign] . digits
ParseFloat(value) ==
  LET neg   == value # <<>> /\ value[1] = "-"
      body  == IF neg THEN Tail(value) ELSE value
      dot   == IndexOf(body, ".")
      whole == SubSeq(body, 1, dot - 1)
      frac  == SubSeq(body, dot + 1, Len(body))
      ok    == /\ \A i \in 1..Len(whole) : IsDigit(whole[i])
               /\ \A i \in 1..Len(frac) : IsDigit(frac[i])
               /\ Len(whole) + Len(frac) > 0
      mag   == [w |-> DigitsValue(whole), f |-> FractionValue(frac, 1)]
  IN  IF ~ok THEN [ok |-> FALSE, val |-> Zero]
      ELSE [ok |-> TRUE, val |-> IF neg THEN NumNeg(mag) ELSE mag]

\* int(value.split(b'/')[0]): [sign] digits
ParseInt(value) ==
  LET head  == SubSeq(value, 1, IndexOf(value, "/") - 1)
      neg   == head # <<>> /\ head[1] = "-"
      body  == IF neg THEN Tail(head) ELSE head
      ok    == body # <<>> /\ \A i \in 1..Len(body) : IsDigit(body[i])
  IN  IF ~ok THEN [ok |-> FALSE, val |-> Zero]
      ELSE [ok |-> TRUE,
            val |-> IF neg THEN NumNeg(NumOf(DigitsValue(body))) ELSE NumOf(DigitsValue(body))]

-----------------------------------------------------------------------------
(* VertexObject *)

None == 0

VertexObject == [position |-> <<Zero, Zero, Zero>>,
                 normal   |-> <<Zero, Zero, Zero>>,
                 texcoord |-> <<Zero, Zero>>,
                 index    |-> 0]

-----------------------------------------------------------------------------
(* MeshObject.__load: the state of the loop and one iteration of it *)

LoadInit(h) ==
  [value |-> <<>>, record |-> <<>>, value_type |-> "position", prev |-> "",
   vertex |-> None, vertex_idx |-> 0, vertex_map |-> <<>>,
   heap |-> h, triangles |-> <<>>, comment |-> FALSE, raised |-> FALSE]

\* vertex_map.get(x): the key x is a number; a float key equal to an int key
\* finds it
MapGet(vertex_map, x) ==
  IF x.f = 0 /\ x.w \in 1..Len(vertex_map) THEN vertex_map[x.w] ELSE None

\* lines 42-46: a bare `v` reached whitespace
NewVertex(st) ==
  LET id == Len(st.heap) + 1
  IN  [st EXCEPT !.vertex_idx = st.vertex_idx + 1,
                 !.value_type = "position",
                 !.vertex = id,
                 !.heap = Append(st.heap, [VertexObject EXCEPT !.index = st.vertex_idx + 1]),
                 !.vertex_map = Append(st.vertex_map, id)]

\* lines 49-53: the pending token is decoded into the record
Decode(st) ==
  IF st.value = <<>> THEN st
  ELSE LET r == IF st.value_type = "triangle" THEN ParseInt(st.value)
                                              ELSE ParseFloat(st.value)
       IN  IF r.ok THEN [st EXCEPT !.record = Append(st.record, r.val)]
                   ELSE [st EXCEPT !.raised = TRUE]

\* line 64: a tuple is truthy when it is not empty
KeepTriangle(triangle) == triangle # <<>>


\* a flush that forgets line 65 (record = [])
FlushKeepsRecord(st) ==
  IF st.raised THEN st
  ELSE CASE st.value_type = "normal" ->
              IF st.vertex = None THEN [st EXCEPT !.raised = TRUE]
              ELSE [st EXCEPT !.heap[st.vertex].normal = st.record]
         [] st.value_type = "position" ->
              IF st.vertex = None THEN [st EXCEPT !.raised = TRUE]
              ELSE [st EXCEPT !.heap[st.vertex].position = st.record]
         [] st.value_type = "texcoord" ->
              IF Len(st.record) = 2
              THEN IF st.vertex = None THEN [st EXCEPT !.raised = TRUE]
                   ELSE [st EXCEPT !.heap[st.vertex].texcoord = st.record]
              ELSE st
         [] st.value_type = "triangle" ->
              LET triangle == [i \in 1..Len(st.record) |-> MapGet(st.vertex_map, st.record[i])]
              IN  IF triangle # <<>>
                  THEN [st EXCEPT !.triangles = Append(st.triangles, triangle)]
                  ELSE st

\* lines 55-65: a newline flushes the record
Flush(st) ==
  IF st.raised THEN st
  ELSE
  LET cleared == [st EXCEPT !.record = <<>>]
  IN  CASE st.value_type = "normal" ->
             IF st.vertex = None THEN [st EXCEPT !.raised = TRUE]
             ELSE [cleared EXCEPT !.heap[st.vertex].normal = st.record]
        [] st.value_type = "position" ->
             IF st.vertex = None THEN [st EXCEPT !.raised = TRUE]
             ELSE [cleared EXCEPT !.heap[st.vertex].position = st.record]
        [] st.value_type = "texcoord" ->
             IF Len(st.record) = 2
             THEN IF st.vertex = None THEN [st EXCEPT !.raised = TRUE]
                  ELSE [cleared EXCEPT !.heap[st.vertex].texcoord = st.record]
             ELSE cleared
        [] st.value_type = "triangle" ->
             LET triangle == [i \in 1..Len(st.record) |-> MapGet(st.vertex_map, st.record[i])]
             IN  IF KeepTriangle(triangle)
                 THEN [cleared EXCEPT !.triangles = Append(st.triangles, triangle)]
                 ELSE cleared

\* lines 40-65: a space or a newline
Whitespace(st, char) ==
  LET s1 == IF st.prev = "v" THEN NewVertex(st)
            ELSE IF st.prev = " " THEN st
            ELSE Decode(st)
      s2 == IF s1.raised THEN s1 ELSE [s1 EXCEPT !.value = <<>>]
  IN  IF char = "\n" THEN Flush(s2) ELSE s2

\* lines 66-69: the bytes of a comment, up to its newline
CommentByte(st, char) ==
  IF char = "\n" THEN [st EXCEPT !.comment = FALSE, !.prev = char] ELSE st

\* lines 31-72: one byte
LoadStep(st, char) ==
  IF st.raised THEN st
  ELSE IF st.comment THEN CommentByte(st, char)
  ELSE IF char = "#" THEN [st EXCEPT !.comment = TRUE]
  ELSE
  LET s1 == CASE char = "v" -> st
              [] char = "n" -> IF st.prev = "v" THEN [st EXCEPT !.value_type = "normal"] ELSE st
              [] char = "t" -> IF st.prev = "v" THEN [st EXCEPT !.value_type = "texcoord"] ELSE st
              [] char = "f" -> IF st.prev = "\n" THEN [st EXCEPT !.value_type = "triangle"] ELSE st
              [] char \in {" ", "\n"} -> Whitespace(st, char)
              [] OTHER -> [st EXCEPT !.value = Append(st.value, char)]
  IN  IF s1.raised THEN s1 ELSE [s1 EXCEPT !.prev = char]

\* the loop over buffer[lo..hi]
RECURSIVE LoadRange(_, _, _, _)
LoadRange(st, buffer, lo, hi) ==
  IF lo > hi THEN st
  ELSE IF lo = hi THEN LoadStep(st, buffer[lo])
  ELSE LET mid == (lo + hi) \div 2
           left == LoadRange(st, buffer, lo, mid)
       IN  IF left.raised THEN left ELSE LoadRange(left, buffer, mid + 1, hi)

\* MeshObject(file_path) on a heap h: the loop state when the stream ends
Load(buffer, h) == LoadRange(LoadInit(h), buffer, 1, Len(buffer))


-----------------------------------------------------------------------------
(* MeshObject.__get_unique_vertices *)

\* the slots of all triangles, triangle by triangle
RECURSIVE Slots(_)
Slots(tris) == IF tris = <<>> THEN <<>> ELSE Head(tris) \o Slots(Tail(tris))


\* a pass that numbers a record before it appends it (indices from 0)
UniqueStepFromZero(acc, vertex) ==
  IF acc.raised \/ vertex \in acc.seen THEN acc
  ELSE IF vertex = None THEN [acc EXCEPT !.raised = TRUE]
  ELSE [acc EXCEPT !.vertex_array = Append(acc.vertex_array, vertex),
                   !.heap[vertex].index = Len(acc.vertex_array),
                   !.seen = acc.seen \cup {vertex}]

\* lines 83-87: one slot; acc.seen is hash_map
UniqueStep(acc, vertex) ==
  IF acc.raised \/ vertex \in acc.seen THEN acc
  ELSE IF vertex = None THEN [acc EXCEPT !.raised = TRUE]
  ELSE [acc EXCEPT !.vertex_array = Append(acc.vertex_array, vertex),
                   !.heap[vertex].index = Len(acc.vertex_array) + 1,
                   !.seen = acc.seen \cup {vertex}]

RECURSIVE UniqueLoop(_, _)
UniqueLoop(acc, slots) ==
  IF slots = <<>> THEN acc
  ELSE LET next == UniqueStep(acc, Head(slots))
       IN  IF next.raised THEN next ELSE UniqueLoop(next, Tail(slots))

\* returns vertex_array and the heap with the indices reassigned
GetUniqueVertices(tris, h) ==
  UniqueLoop([vertex_array |-> <<>>, heap |-> h, seen |-> {}, raised |-> FALSE], Slots(tris))

-----------------------------------------------------------------------------
(* rotate *)

Cos(angle) == CASE angle % 360 = 0 -> 1 [] angle % 360 = 90 -> 0
                [] angle % 360 = 180 -> -1 [] angle % 360 = 270 -> 0

Sin(angle) == CASE angle % 360 = 0 -> 0 [] angle % 360 = 90 -> 1
                [] angle % 360 = 180 -> 0 [] angle % 360 = 270 -> -1

MatrixX(angle) == << 1, 0, 0,
                     0, Cos(angle), 0 - Sin(angle),
                     0, Sin(angle), Cos(angle) >>

MatrixY(angle) == << Cos(angle), 0, Sin(angle),
                     0, 1, 0,
                     0 - Sin(angle), 0, Cos(angle) >>

MatrixZ(angle) == << Cos(angle), 0 - Sin(angle), 0,
                     Sin(angle), Cos(angle), 0,
                     0, 0, 1 >>

VectorDot(row, col) ==
  NumAdd(NumAdd(NumTimes(row[1], col[1]), NumTimes(row[2], col[2])), NumTimes(row[3], col[3]))

MatrixTimes(matrix, v) ==
  << VectorDot(SubSeq(matrix, 1, 3), v),
     VectorDot(SubSeq(matrix, 4, 6), v),
     VectorDot(SubSeq(matrix, 7, 9), v) >>

\* lines 125-137: the loop over vertex_array; col[2] of a tuple with fewer
\* than 3 components raises IndexError
RECURSIVE RotateLoop(_, _, _)
RotateLoop(m, matrix, vertex_array) ==
  IF m.raised \/ vertex_array = <<>> THEN m
  ELSE LET vertex == Head(vertex_array)
           v == m.heap[vertex]
       IN  IF Len(v.position) < 3 \/ Len(v.normal) < 3
           THEN [m EXCEPT !.raised = TRUE]
           ELSE RotateLoop([m EXCEPT !.heap[vertex].position = MatrixTimes(matrix, v.position),
                                     !.heap[vertex].normal = MatrixTimes(matrix, v.normal)],
                           matrix, Tail(vertex_array))


\* a rotation that walks the slots of the triangles instead of the dedup list
RotateEverySlot(m, matrix, tris) ==
  IF m.raised THEN m
  ELSE LET u == GetUniqueVertices(tris, m.heap)
       IN  IF u.raised THEN [m EXCEPT !.raised = TRUE]
           ELSE RotateLoop([heap |-> u.heap, raised |-> FALSE,
                            vertex_array |-> u.vertex_array, passes |-> m.passes + 1],
                           matrix, Slots(tris))

\* m = [heap, raised, vertex_array, passes]: the vertex records, whether an
\* exception was raised, the list the last dedup pass returned and the number
\* of dedup passes run
RotateWithMatrix(m, matrix, tris) ==
  IF m.raised THEN m
  ELSE LET u == GetUniqueVertices(tris, m.heap)
       IN  IF u.raised THEN [m EXCEPT !.raised = TRUE]
           ELSE RotateLoop([heap |-> u.heap, raised |-> FALSE,
                            vertex_array |-> u.vertex_array, passes |-> m.passes + 1],
                           matrix, u.vertex_array)

RotateX(m, angle, tris) == IF angle = 0 THEN m ELSE RotateWithMatrix(m, MatrixX(angle), tris)

RotateY(m, angle, tris) == IF angle = 0 THEN m ELSE RotateWithMatrix(m, MatrixY(angle), tris)

RotateZ(m, angle, tris) == IF angle = 0 THEN m ELSE RotateWithMatrix(m, MatrixZ(angle), tris)

MeshState(h) == [heap |-> h, raised |-> FALSE, vertex_array |-> <<>>, passes |-> 0]

RotateMesh(angles, tris, h) ==
  RotateZ(RotateY(RotateX(MeshState(h), angles[1], tris), angles[2], tris), angles[3], tris)

-----------------------------------------------------------------------------
(* align *)

SpanStart == <<NumOf(SpanInit), NumOf(0 - SpanInit)>>

\* lines 149-156
RECURSIVE SpanLoop(_, _, _)
SpanLoop(sp, h, vertex_array) ==
  IF sp.raised \/ vertex_array = <<>> THEN sp
  ELSE LET p == h[Head(vertex_array)].position
       IN  IF Len(p) < 3 THEN [sp EXCEPT !.raised = TRUE]
           ELSE SpanLoop([sp EXCEPT !.x = <<NumMin(sp.x[1], p[1]), NumMax(sp.x[2], p[1])>>,
                                    !.y = <<NumMin(sp.y[1], p[2]), NumMax(sp.y[2], p[2])>>,
                                    !.z = <<NumMin(sp.z[1], p[3]), NumMax(sp.z[2], p[3])>>],
                         h, Tail(vertex_array))

\* line 157
Anchor(sp) == << NumHalf(NumAdd(sp.x[1], sp.z[1])), sp.y[1], NumHalf(NumAdd(sp.x[2], sp.z[2])) >>

\* lines 160-166
RECURSIVE MoveLoop(_, _, _)
MoveLoop(h, anchor, vertex_array) ==
  IF vertex_array = <<>> THEN h
  ELSE LET vertex == Head(vertex_array)
           p == h[vertex].position
       IN  MoveLoop([h EXCEPT ![vertex].position =
                        << NumSub(p[1], anchor[1]), NumSub(p[2], anchor[2]), NumSub(p[3], anchor[3]) >>],
                    anchor, Tail(vertex_array))

AlignMesh(tris, h) ==
  LET u == GetUniqueVertices(tris, h)
      sp == SpanLoop([x |-> SpanStart, y |-> SpanStart, z |-> SpanStart, raised |-> u.raised],
                     u.heap, u.vertex_array)
  IN  IF sp.raised THEN [heap |-> h, raised |-> TRUE, vertex_array |-> <<>>, anchor |-> <<>>]
      ELSE [heap |-> MoveLoop(u.heap, Anchor(sp), u.vertex_array), raised |-> FALSE,
            vertex_array |-> u.vertex_array, anchor |-> Anchor(sp)]

-----------------------------------------------------------------------------
(* dump *)

\* str(n) of a natural number
RECURSIVE Digits(_)
Digits(n) == IF n < 10 THEN <<DigitChars[n + 1]>> ELSE Digits(n \div 10) \o <<DigitChars[(n % 10) + 1]>>

\* n in exactly `width` digits
RECURSIVE PadDigits(_, _)
PadDigits(n, width) ==
  IF width = 0 THEN <<>> ELSE PadDigits(n \div 10, width - 1) \o <<DigitChars[(n % 10) + 1]>>


\* a format that loses the sign
EncodeMagnitude(x) ==
  LET mag  == IF x.w < 0 THEN NumNeg(x) ELSE x
      sub  == 2 ^ MaxCalls
      q    == mag.f \div sub
      r    == mag.f % sub
      up   == 2 * r > sub \/ (2 * r = sub /\ q % 2 = 1)
      q1   == IF up THEN q + 1 ELSE q
      w1   == IF q1 = 10 ^ Decimals THEN mag.w + 1 ELSE mag.w
      q2   == IF q1 = 10 ^ Decimals THEN 0 ELSE q1
  IN  <<" ">> \o Digits(w1) \o <<".">> \o PadDigits(q2, Decimals)

\* ' {:.7f}'.format(value): sign, magnitude rounded half-even to 7 places
EncodeNumber(x) ==
  LET neg  == x.w < 0
      mag  == IF neg THEN NumNeg(x) ELSE x
      sub  == 2 ^ MaxCalls
      q    == mag.f \div sub
      r    == mag.f % sub
      up   == 2 * r > sub \/ (2 * r = sub /\ q % 2 = 1)
      q1   == IF up THEN q + 1 ELSE q
      w1   == IF q1 = 10 ^ Decimals THEN mag.w + 1 ELSE mag.w
      q2   == IF q1 = 10 ^ Decimals THEN 0 ELSE q1
  IN  <<" ">> \o (IF neg THEN <<"-">> ELSE <<>>) \o Digits(w1) \o <<".">> \o PadDigits(q2, Decimals)

\* __encode_tuple
RECURSIVE EncodeTuple(_)
EncodeTuple(data) == IF data = <<>> THEN <<>> ELSE EncodeNumber(Head(data)) \o EncodeTuple(Tail(data))

\* line 175, line 179: a tuple is truthy when it is not empty
Truthy(data) == data # <<>>

\* lines 172-182
VertexLines(v) ==
  <<"v">> \o EncodeTuple(v.position) \o <<"\n">>
  \o (IF Truthy(v.normal) THEN <<"v", "n">> \o EncodeTuple(v.normal) \o <<"\n">> ELSE <<>>)
  \o (IF Truthy(v.texcoord) THEN <<"v", "t">> \o EncodeTuple(v.texcoord) \o <<"\n">> ELSE <<>>)

RECURSIVE VerticesText(_, _)
VerticesText(h, vertex_array) ==
  IF vertex_array = <<>> THEN <<>>
  ELSE VertexLines(h[Head(vertex_array)]) \o VerticesText(h, Tail(vertex_array))

\* line 186
RECURSIVE FaceSlots(_, _)
FaceSlots(h, triangle) ==
  IF triangle = <<>> THEN <<>>
  ELSE LET i == Digits(h[Head(triangle)].index)
       IN  <<" ">> \o i \o <<"/">> \o i \o <<"/">> \o i \o FaceSlots(h, Tail(triangle))

RECURSIVE FacesText(_, _)
FacesText(h, tris) ==
  IF tris = <<>> THEN <<>>
  ELSE <<"f">> \o FaceSlots(h, Head(tris)) \o <<"\n">> \o FacesText(h, Tail(tris))

DumpMesh(tris, h) ==
  LET u == GetUniqueVertices(tris, h)
  IN  IF u.raised THEN [heap |-> h, raised |-> TRUE, vertex_array |-> <<>>, text |-> <<>>]
      ELSE [heap |-> u.heap, raised |-> FALSE, vertex_array |-> u.vertex_array,
            text |-> VerticesText(u.heap, u.vertex_array)
                     \o <<"#", " ">> \o Digits(Len(u.vertex_array))
                     \o <<" ", "v", "e", "r", "t", "i", "c", "i", "e", "s", "\n">>
                     \o FacesText(u.heap, tris)
                     \o <<"#", " ">> \o Digits(Len(tris))
                     \o <<" ", "e", "l", "e", "m", "e", "n", "t", "s", "\n">>]

-----------------------------------------------------------------------------
(* append *)


\* an append that puts the target's triangles first
AppendTrianglesFirst(self, target) == target \o self

AppendTriangles(self, target) == self \o target


-----------------------------------------------------------------------------
(* Input files.  A file is a sequence of lines; a line is a record type
   keyword, tokens each preceded by one space, an optional tail and a
   newline. *)

KindBytes(kind) ==
  CASE kind = "v" -> <<"v">> [] kind = "vn" -> <<"v", "n">>
    [] kind = "vt" -> <<"v", "t">> [] kind = "f" -> <<"f">> [] kind = "" -> <<>>

RECURSIVE TokensBytes(_)
TokensBytes(tokens) ==
  IF tokens = <<>> THEN <<>> ELSE <<" ">> \o Head(tokens) \o TokensBytes(Tail(tokens))

LineBytes(line) == KindBytes(line.kind) \o TokensBytes(line.tokens) \o line.tail \o <<"\n">>

RECURSIVE FileBytes(_)
FileBytes(file) == IF file = <<>> THEN <<>> ELSE LineBytes(Head(file)) \o FileBytes(Tail(file))

Line(kind, tokens, tail) == [kind |-> kind, tokens |-> tokens, tail |-> tail]

\* a line whose tokens are the single digits ds
Plain(kind, ds) == Line(kind, [i \in 1..Len(ds) |-> <<DigitChars[ds[i] + 1]>>], <<>>)

RegularLines ==
  { Plain("v", <<0, 0, 0>>), Plain("v", <<1, 0, 0>>), Plain("v", <<0, 1, 0>>),
    Plain("vn", <<0, 0, 1>>), Plain("vt", <<1, 0>>),
    Plain("f", <<1, 2, 3>>), Plain("f", <<4, 5, 5>>) }

OddLines ==
  { Plain("v", <<1, 2, 3>>),
    Line("v", <<<<"1">>, <<"2">>, <<"3">>>>, <<" ", "#", "c">>),
    Line("", <<>>, <<"#", "c">>),
    Line("", <<>>, <<>>),
    Plain("vn", <<>>),
    Plain("vt", <<1, 0, 0>>),
    Plain("f", <<1, 2>>),
    Plain("f", <<1, 2, 2, 1>>),
    Line("f", <<<<"1", "/", "1", "/", "1">>, <<"2", "/", "2">>, <<"1">>>>, <<" ", "#", "c">>),
    Line("v", <<<<"-", "0", ".", "5">>, <<"1", ".", "2", "5">>, <<"2">>>>, <<>>) }

SeqsUpTo(S, n) == UNION {[1..k -> S] : k \in 1..n}

Streams == SeqsUpTo(RegularLines, MaxLines) \cup SeqsUpTo(OddLines, MaxOddLines)

\* the minimal file v 0 0 0 / v 1 0 0 / v 0 1 0 / f 1 2 3
Minimal == << Plain("v", <<0, 0, 0>>), Plain("v", <<1, 0, 0>>), Plain("v", <<0, 1, 0>>),
              Plain("f", <<1, 2, 3>>) >>

\* four vertices A B C D and the triangles (A,B,C), (B,D,A)
Quad == << Plain("v", <<0, 1, 0>>), Plain("v", <<2, 0, 0>>), Plain("v", <<2, 0, 1>>),
           Plain("v", <<0, 3, 1>>), Plain("f", <<1, 2, 3>>), Plain("f", <<2, 4, 1>>) >>

\* normals, texcoords, fractions, a slot used twice
Shaded == << Line("v", <<<<"-", "0", ".", "5">>, <<"1", ".", "2", "5">>, <<"2">>>>, <<>>),
             Plain("vn", <<0, 0, 1>>),
             Line("vt", <<<<"0", ".", "5">>, <<"1">>>>, <<>>),
             Line("v", <<<<"0", ".", "0", "0", "0", "0", "0", "0", "1">>, <<"0">>, <<"3">>>>, <<>>),
             Plain("vn", <<1, 0, 0>>),
             Plain("f", <<1, 2, 2>>) >>

\* a face with indices that no vertex has
Dangling == << Plain("v", <<0, 0, 0>>), Plain("f", <<1, 2, 3>>) >>

\* a normal line without numbers
Bare == << Plain("v", <<1, 0, 2>>), Plain("vn", <<>>), Plain("f", <<1, 1, 1>>) >>

PipelineFiles == {Quad, Shaded, Dangling, Bare}

\* --rotate-x, --rotate-y, --rotate-z: each axis unturned or a quarter turn
\* (the defaults are 90, 0, -90)
Angles == {<<x, y, z>> : x \in {0, 90}, y \in {0, 90}, z \in {0, -90}}

-----------------------------------------------------------------------------
(* The program *)

InitWith(fs) ==
  /\ files = fs
  /\ nread = 0
  /\ heap = <<>>
  /\ item = <<>>
  /\ hasItem = FALSE
  /\ triangles = <<>>
  /\ hasMesh = FALSE
  /\ status = "ok"
  /\ op = "init"
  /\ arg = <<>>
  /\ out = <<>>
  /\ ncalls = 0

\* line 206: item = MeshObject(file_path=item_path)
Construct ==
  /\ status = "ok" /\ ~hasItem /\ nread < Len(files)
  /\ LET file == files[nread + 1]
         st == Load(FileBytes(file), heap)
     IN  /\ nread' = nread + 1
         /\ op' = "load"
         /\ arg' = file
         /\ IF st.raised
            THEN /\ status' = "raised"
                 /\ out' = <<>>
                 /\ UNCHANGED <<heap, item, hasItem>>
            ELSE /\ status' = "ok"
                 /\ heap' = st.heap
                 /\ item' = st.triangles
                 /\ hasItem' = TRUE
                 /\ out' = [vertices |-> Len(st.vertex_map), triangles |-> Len(st.triangles)]
  /\ UNCHANGED <<files, triangles, hasMesh, ncalls>>

\* lines 207-209: the first item becomes the mesh
Adopt ==
  /\ status = "ok" /\ hasItem /\ ~hasMesh
  /\ triangles' = item
  /\ hasMesh' = TRUE
  /\ hasItem' = FALSE
  /\ op' = "adopt"
  /\ arg' = <<>>
  /\ out' = <<>>
  /\ UNCHANGED <<heap, files, nread, item, status, ncalls>>

\* line 210: mesh.append(item)
MeshAppend ==
  /\ status = "ok" /\ hasItem /\ hasMesh
  /\ triangles' = AppendTriangles(triangles, item)
  /\ hasItem' = FALSE
  /\ op' = "append"
  /\ arg' = item
  /\ out' = <<>>
  /\ UNCHANGED <<heap, files, nread, item, hasMesh, status, ncalls>>

\* line 211: mesh.rotate(angles), after the loop over the files
Rotate(angles) ==
  /\ status = "ok" /\ hasMesh /\ ~hasItem /\ nread = Len(files) /\ ncalls < MaxCalls
  /\ LET m == RotateMesh(angles, triangles, heap)
     IN  /\ op' = "rotate"
         /\ arg' = angles
         /\ ncalls' = ncalls + 1
         /\ IF m.raised
            THEN /\ status' = "raised"
                 /\ out' = <<>>
                 /\ UNCHANGED heap
            ELSE /\ status' = "ok"
                 /\ heap' = m.heap
                 /\ out' = [vertex_array |-> m.vertex_array, passes |-> m.passes]
  /\ UNCHANGED <<files, nread, item, hasItem, triangles, hasMesh>>

\* line 212: mesh.align()
Align ==
  /\ status = "ok" /\ hasMesh /\ ~hasItem /\ nread = Len(files) /\ ncalls < MaxCalls
  /\ LET m == AlignMesh(triangles, heap)
     IN  /\ op' = "align"
         /\ arg' = <<>>
         /\ ncalls' = ncalls + 1
         /\ IF m.raised
            THEN /\ status' = "raised"
                 /\ out' = <<>>
                 /\ UNCHANGED heap
            ELSE /\ status' = "ok"
                 /\ heap' = m.heap
                 /\ out' = [vertex_array |-> m.vertex_array, passes |-> 1, anchor |-> m.anchor]
  /\ UNCHANGED <<files, nread, item, hasItem, triangles, hasMesh>>

\* line 213: mesh.dump()
Dump ==
  /\ status = "ok" /\ hasMesh /\ ~hasItem /\ nread = Len(files)
  /\ LET m == DumpMesh(triangles, heap)
     IN  /\ op' = "dump"
         /\ arg' = <<>>
         /\ IF m.raised
            THEN /\ status' = "raised"
                 /\ out' = <<>>
                 /\ UNCHANGED heap
            ELSE /\ status' = "ok"
                 /\ heap' = m.heap
                 /\ out' = [vertex_array |-> m.vertex_array, passes |-> 1, text |-> m.text]
  /\ UNCHANGED <<files, nread, item, hasItem, triangles, hasMesh, ncalls>>

\* __main__ with its files drawn from PipelineFiles
Init == \E fs \in SeqsUpTo(PipelineFiles, MaxFiles) : InitWith(fs)

Next ==
  \/ Construct
  \/ Adopt
  \/ MeshAppend
  \/ \E angles \in Angles : Rotate(angles)
  \/ Align
  \/ Dump

Spec == Init /\ [][Next]_vars

\* one file, drawn from Streams, read and written back
InitLoad == \E f \in Streams : InitWith(<<f>>)

NextLoad ==
  \/ Construct
  \/ Adopt
  \/ Dump

SpecLoad == InitLoad /\ [][NextLoad]_vars


-----------------------------------------------------------------------------
(* What the claims speak about *)

\* the references (None included) that a triangle list holds
Refs(tris) == UNION {Range(tris[i]) : i \in 1..Len(tris)}

\* the lines of a text, without their newlines
RECURSIVE SplitLines(_)
SplitLines(text) ==
  IF text = <<>> THEN <<>>
  ELSE LET n == IndexOf(text, "\n")
       IN  <<SubSeq(text, 1, n - 1)>> \o SplitLines(SubSeq(text, n + 1, Len(text)))

\* the keyword of a line: its bytes up to the first space
Keyword(line) == SubSeq(line, 1, IndexOf(line, " ") - 1)

RECURSIVE Keywords(_)
Keywords(lines) == IF lines = <<>> THEN <<>> ELSE <<Keyword(Head(lines))>> \o Keywords(Tail(lines))

RECURSIVE Select(_, _)
Select(lines, keyword) ==
  IF lines = <<>> THEN <<>>
  ELSE (IF Keyword(Head(lines)) = keyword THEN <<Head(lines)>> ELSE <<>>) \o Select(Tail(lines), keyword)

\* a file of v / vn / vt / f lines with single-digit fields, no tail, first
\* line a v line
IsPlain(line) ==
  /\ line.tail = <<>>
  /\ \A i \in 1..Len(line.tokens) : Len(line.tokens[i]) = 1 /\ IsDigit(line.tokens[i][1])
  /\ \/ line.kind \in {"v", "vn", "f"} /\ Len(line.tokens) = 3
     \/ line.kind = "vt" /\ Len(line.tokens) = 2

Regular(file) ==
  /\ file # <<>>
  /\ \A i \in 1..Len(file) : IsPlain(file[i])
  /\ file[1].kind = "v"

\* the number of v lines among the first n lines
VCount(file, n) == Cardinality({j \in 1..n : file[j].kind = "v"})

\* the fields of a plain line as numbers
Fields(line) == [i \in 1..Len(line.tokens) |-> NumOf(DigitVal(line.tokens[i][1]))]

FieldInts(line) == [i \in 1..Len(line.tokens) |-> DigitVal(line.tokens[i][1])]

\* every face index is in 1..V, V the number of v lines of the file
IndicesInFile(file) ==
  \A i \in 1..Len(file) : file[i].kind = "f" =>
    \A k \in 1..3 : FieldInts(file[i])[k] \in 1..VCount(file, Len(file))

\* every face index is the number of a v line above the face line
IndicesAbove(file) ==
  \A i \in 1..Len(file) : file[i].kind = "f" =>
    \A k \in 1..3 : FieldInts(file[i])[k] \in 1..VCount(file, i)

\* the line of the n-th v line
VLine(file, n) == CHOOSE i \in 1..Len(file) : file[i].kind = "v" /\ VCount(file, i) = n

\* the last line of the given kind that belongs to the n-th vertex, 0 if none
LastOf(file, n, kind) ==
  LET S == {i \in 1..Len(file) : file[i].kind = kind /\ VCount(file, i) = n}
  IN  IF S = {} THEN 0 ELSE CHOOSE i \in S : \A j \in S : j <= i

\* the record that a regular file describes for its n-th v line
Described(file, n) ==
  LET vn == LastOf(file, n, "vn")
      vt == LastOf(file, n, "vt")
  IN  [position |-> Fields(file[VLine(file, n)]),
       normal   |-> IF vn = 0 THEN <<Zero, Zero, Zero>> ELSE Fields(file[vn]),
       texcoord |-> IF vt = 0 THEN <<Zero, Zero>> ELSE Fields(file[vt]),
       index    |-> n]

\* the face lines of a file, in line order
RECURSIVE FaceLines(_, _)
FaceLines(file, i) ==
  IF i > Len(file) THEN <<>>
  ELSE (IF file[i].kind = "f" THEN <<i>> ELSE <<>>) \o FaceLines(file, i + 1)

\* the records of a regular file are exactly the described ones, allocated
\* after the `base` records that existed before
RecordsAsDescribed(file, base) ==
  /\ Len(heap) = base + VCount(file, Len(file))
  /\ \A n \in 1..VCount(file, Len(file)) : heap[base + n] = Described(file, n)

\* one triangle per face line, in line order, its slots the records numbered
\* i, j, k
TrianglesAsDescribed(file, base) ==
  LET fl == FaceLines(file, 1)
  IN  /\ Len(item) = Len(fl)
      /\ \A t \in 1..Len(fl) :
           item[t] = [k \in 1..3 |-> base + FieldInts(file[fl[t]])[k]]

\* the number of records that existed before the file just read
Base == Len(heap) - out.vertices

FaceText == <<"f", " ", "1", "/", "1", "/", "1", " ", "2", "/", "2", "/", "2",
              " ", "3", "/", "3", "/", "3">>

\* dump() of the minimal file
MinimalDump ==
  (files = <<Minimal>> /\ op = "dump") =>
    /\ status = "ok"
    /\ LET lines == SplitLines(out.text)
       IN  /\ Len(Select(lines, <<"v">>)) = 3
           /\ Len(Select(lines, <<"v", "n">>)) = 3
           /\ Len(Select(lines, <<"v", "t">>)) = 3
           /\ Select(lines, <<"f">>) = <<FaceText>>
           /\ Len(triangles) = 1 /\ Len(out.vertex_array) = 3

-----------------------------------------------------------------------------
(* C1: a file of well-formed v / vn / vt / f lines whose face indices are all
   in 1..V, V the number of v lines of the file, is parsed into one record per
   v line, numbered in line order, with the normals and texcoords of the vn /
   vt lines that follow it, and one triangle per face line with the records
   i, j, k in its slots; the minimal file dumps as 3 v, 3 vn, 3 vt lines and
   the face line f 1/1/1 2/2/2 3/3/3.  (As claimed: it fails for a face line
   that stands above one of the v lines it names.) *)
C1_AsClaimed ==
  /\ (op = "load" /\ Regular(arg) /\ IndicesInFile(arg)) =>
       /\ status = "ok"
       /\ RecordsAsDescribed(arg, Base)
       /\ TrianglesAsDescribed(arg, Base)
  /\ MinimalDump

(* C1 as amended: the same, for files whose face indices each name a v line
   above the face line. *)
C1_Parse ==
  /\ (op = "load" /\ Regular(arg) /\ IndicesAbove(arg)) =>
       /\ status = "ok"
       /\ RecordsAsDescribed(arg, Base)
       /\ TrianglesAsDescribed(arg, Base)
  /\ MinimalDump

C1_Witness ==
  /\ files = <<Minimal>> /\ op = "dump" /\ status = "ok"
  /\ Len(heap) = 3 /\ heap[2].position = <<NumOf(1), Zero, Zero>>
  /\ triangles = <<<<1, 2, 3>>>>
  /\ Select(SplitLines(out.text), <<"f">>) = <<FaceText>>

-----------------------------------------------------------------------------
(* C2: at the flush of a face line each index is resolved through the
   parse-order vertex map; a face line whose indices are all absent from the
   map adds no triangle, a face line with at least one index in the map adds
   a triangle whose unresolved slots are absent. *)
Resolved(file, i, base) ==
  [k \in 1..3 |-> IF FieldInts(file[i])[k] \in 1..VCount(file, i)
                  THEN base + FieldInts(file[i])[k] ELSE None]

RECURSIVE Retained(_, _, _)
Retained(file, i, base) ==
  IF i > Len(file) THEN <<>>
  ELSE (IF file[i].kind = "f" /\ Range(Resolved(file, i, base)) # {None}
        THEN <<Resolved(file, i, base)>> ELSE <<>>) \o Retained(file, i + 1, base)

C2_Claim ==
  (op = "load" /\ Regular(arg)) => (status = "ok" /\ item = Retained(arg, 1, Base))

-----------------------------------------------------------------------------
(* C9: every element of the triangle list holds exactly 3 VertexObject
   references. *)
ThreeRecords(tris) ==
  \A i \in 1..Len(tris) : Len(tris[i]) = 3 /\ None \notin Range(tris[i])

C9_Claim == ThreeRecords(triangles) /\ ThreeRecords(item)

-----------------------------------------------------------------------------
(* C10: deleting the bytes of every comment, from its # up to but not
   including the newline that ends it, does not change what the parser
   builds. *)
InComment(s, i) == \E j \in 1..i : s[j] = "#" /\ \A k \in j..i : s[k] # "\n"

StripComments(s) ==
  LET K == {i \in 1..Len(s) : ~InComment(s, i)}
  IN  [n \in 1..Cardinality(K) |->
         s[CHOOSE i \in K : Cardinality({j \in K : j < i}) = n - 1]]

C10_Claim ==
  (op = "load" /\ nread = 1) =>
    LET st == Load(StripComments(FileBytes(arg)), <<>>)
    IN  /\ st.raised <=> status = "raised"
        /\ ~st.raised => (heap = st.heap /\ item = st.triangles)

-----------------------------------------------------------------------------
(* C3: the dedup pass returns every VertexObject that the triangle list
   references exactly once, in the order of first encounter (triangles in
   order, slots in order), and sets each one's index to its 1-based place in
   the returned list; for the triangles (A,B,C), (B,D,A) the list is A,B,C,D
   with indices 1,2,3,4; a second pass over the unchanged triangle list
   returns the same list and leaves the same indices. *)
PassRan == status = "ok" /\ op \in {"rotate", "align", "dump"} /\ out.passes > 0

\* the place of the first slot that holds v
FirstSlot(tris, v) ==
  LET s == Slots(tris) IN CHOOSE i \in 1..Len(s) : s[i] = v /\ \A j \in 1..(i - 1) : s[j] # v

C3_Dedup ==
  PassRan =>
    LET u == out.vertex_array
        again == GetUniqueVertices(triangles, heap)
    IN  /\ \A i, j \in 1..Len(u) : i # j => u[i] # u[j]
        /\ Range(u) = Refs(triangles)
        /\ \A i, j \in 1..Len(u) : i < j => FirstSlot(triangles, u[i]) < FirstSlot(triangles, u[j])
        /\ \A i \in 1..Len(u) : heap[u[i]].index = i
        /\ ~again.raised /\ again.vertex_array = u /\ again.heap = heap

C3_Witness ==
  /\ PassRan
  /\ triangles = <<<<1, 2, 3>>, <<2, 4, 1>>>>
  /\ out.vertex_array = <<1, 2, 3, 4>>
  /\ \A i \in 1..4 : heap[i].index = i

-----------------------------------------------------------------------------
(* C4: append(target) leaves the mesh with its own triangles followed by the
   target's, same references, same order, and creates or removes no
   VertexObject; the dedup count of the merged mesh is the sum of the dedup
   counts of the two meshes. *)
DedupCount(tris) == Len(GetUniqueVertices(tris, heap).vertex_array)

C4_Step ==
  op' = "append" =>
    /\ Len(triangles') = Len(triangles) + Len(item)
    /\ \A i \in 1..Len(triangles) : triangles'[i] = triangles[i]
    /\ \A i \in 1..Len(item) : triangles'[Len(triangles) + i] = item[i]
    /\ heap' = heap
    /\ None \notin Refs(triangles') => DedupCount(triangles') = DedupCount(triangles) + DedupCount(item)

C4_Append == [][C4_Step]_vars

\* a second copy of the four-vertex file appended to the first
C4_Witness ==
  /\ op = "append" /\ Len(arg) = 2 /\ Len(triangles) = 4
  /\ None \notin Refs(triangles)
  /\ DedupCount(triangles) = 8

-----------------------------------------------------------------------------
(* C5: align() twice in succession leaves every position as one align()
   leaves it: the anchor of the second call is the zero vector. *)
C5_Step ==
  (op = "align" /\ status = "ok" /\ op' = "align" /\ status' = "ok") =>
    /\ out'.anchor = <<Zero, Zero, Zero>>
    /\ \A v \in 1..Len(heap) : heap'[v].position = heap[v].position

C5_Claim == [][C5_Step]_vars

-----------------------------------------------------------------------------
(* C6: parsing the text that dump() returns yields a mesh with the same
   number of triangles and the same set of distinct positions among the
   referenced vertices, the positions taken to the 7 decimals of the
   output. *)
\* y is a multiple of 10^-7 at most half of 10^-7 away from x
Rounds(x, y) ==
  LET d == NumSub(x, y)
      a == IF d.w < 0 THEN NumNeg(d) ELSE d
  IN  /\ y.f % (2 ^ MaxCalls) = 0
      /\ a.w = 0
      /\ 2 * a.f <= 2 ^ MaxCalls

RoundsTuple(p, q) == Len(p) = Len(q) /\ \A i \in 1..Len(p) : Rounds(p[i], q[i])

Positions(tris, h) == {h[v].position : v \in Refs(tris)}

C6_RoundTrip ==
  (op = "dump" /\ status = "ok") =>
    LET st == Load(out.text, <<>>)
        P  == Positions(triangles, heap)
        Q  == Positions(st.triangles, st.heap)
    IN  /\ ~st.raised
        /\ Len(st.triangles) = Len(triangles)
        /\ None \notin Refs(st.triangles)
        /\ \A p \in P : \E q \in Q : RoundsTuple(p, q)
        /\ \A q \in Q : \E p \in P : RoundsTuple(p, q)

\* a dump of two merged files with a coordinate that the output rounds
C6_Witness ==
  /\ op = "dump" /\ status = "ok" /\ nread = 2 /\ Len(triangles) >= 2
  /\ \E p \in Positions(triangles, heap) : \E i \in 1..Len(p) :
       p[i].f % (2 ^ MaxCalls) # 0

-----------------------------------------------------------------------------
(* C7: dump() writes for each distinct referenced vertex, in dedup order, one
   v line, then one vn line, then one vt line, whatever the source set. *)
RECURSIVE Repeat(_, _)
Repeat(s, n) == IF n = 0 THEN <<>> ELSE s \o Repeat(s, n - 1)

C7_Claim ==
  (op = "dump" /\ status = "ok") =>
    LET kw == Keywords(SplitLines(out.text))
        n  == Len(out.vertex_array)
    IN  /\ Len(kw) >= 3 * n
        /\ SubSeq(kw, 1, 3 * n) = Repeat(<< <<"v">>, <<"v", "n">>, <<"v", "t">> >>, n)

-----------------------------------------------------------------------------
(* C8: rotate((ax, ay, az)) turns about X, then Y, then Z; an axis with angle
   0 runs no dedup pass and changes nothing, so rotate((0,0,0)) leaves every
   record as it was; for an axis with a non-zero angle every distinct
   referenced VertexObject has its position and its normal multiplied by the
   matrix of the axis exactly once, however many slots hold it; a quarter
   turn about X takes (0,1,0) to (0,0,1). *)
TurnX(a, p) == IF a = 0 THEN p ELSE <<p[1], NumNeg(p[3]), p[2]>>

TurnY(a, p) == IF a = 0 THEN p ELSE <<p[3], p[2], NumNeg(p[1])>>

TurnZ(a, p) == IF a = 0 THEN p ELSE <<p[2], NumNeg(p[1]), p[3]>>

Turned(a, p) == TurnZ(a[3], TurnY(a[2], TurnX(a[1], p)))

C8_Step ==
  (op' = "rotate" /\ status' = "ok") =>
    LET a == arg'
    IN  /\ Len(heap') = Len(heap)
        /\ out'.passes = Cardinality({k \in 1..3 : a[k] # 0})
        /\ a = <<0, 0, 0>> => heap' = heap
        /\ \A v \in 1..Len(heap) :
             IF v \in Refs(triangles)
             THEN /\ heap'[v].position = Turned(a, heap[v].position)
                  /\ heap'[v].normal = Turned(a, heap[v].normal)
                  /\ heap'[v].texcoord = heap[v].texcoord
             ELSE heap'[v] = heap[v]

C8_Rotate == [][C8_Step]_vars

\* the quarter turn about X of the record A = (0,1,0) that two triangles share
C8_Witness ==
  /\ op = "rotate" /\ status = "ok" /\ arg = <<90, 0, 0>> /\ ncalls = 1
  /\ triangles = <<<<1, 2, 3>>, <<2, 4, 1>>>>
  /\ heap[1].position = <<Zero, Zero, NumOf(1)>>


=============================================================================
